---- MODULE Spec2Model ----
(***************************************************************************)
(* Model of the UVC webcam coordinator in main/usb_webcam_main.c: the four *)
(* callbacks registered with the UVC transport (camera_start_cb,           *)
(* camera_fb_get_cb, camera_fb_return_cb, camera_stop_cb), the static      *)
(* state they share (s_uvc_params, s_fb, the statics of camera_init) and   *)
(* the part of the esp32-camera driver state their calls act on.           *)
(*                                                                         *)
(* Every callback runs to completion before the next one starts, so each   *)
(* is one action.  What a callback did is kept in op (its name), ret (its  *)
(* return value), calls (the esp_camera_* calls it made, in order) and     *)
(* corr (the sensor setter calls it made, in order).                       *)
(***************************************************************************)
EXTENDS Integers, Sequences, FiniteSets, TLC

VARIABLES
    s_uvc_params,   \* static struct s_uvc_params
    inited,         \* camera_init: static bool inited
    cur,            \* camera_init: static cur_* (the cached sensor config)
    s_fb,           \* static fb_t s_fb: cam_fb_p and the uvc_fb descriptor
    drv,            \* esp32-camera driver: is it initialized
    drv_cfg,        \* esp32-camera driver: the config it is initialized with
    pool,           \* esp32-camera driver: frame buffer -> "free" | "out"
    rets,           \* per frame buffer: returns of the frame last taken from it
    held,           \* transport: it holds the descriptor of its last acquire
    asserted,       \* the assert of camera_fb_return_cb failed (abort)
    op,             \* last callback run
    req,            \* arguments of the last camera_start_cb call
    hw_ans,         \* what the sensor library answered in the last callback
    fb_arg,         \* the handle passed to the last callback, if it takes one
    ret,            \* return value of the last callback
    calls,          \* esp_camera_* calls of the last callback, in order
    corr            \* sensor setter calls of the last callback, in order

vars == <<s_uvc_params, inited, cur, s_fb, drv, drv_cfg, pool, rets, held,
          asserted, op, req, hw_ans, fb_arg, ret, calls, corr>>

----------------------------------------------------------------------------
(* Program constants *)

CAMERA_XCLK_FREQ == 20000000
CAMERA_FB_COUNT == 2
UVC_MAX_FRAMESIZE_SIZE == 75 * 1024

(* Bounds of the model *)

\* frame lengths tried around UVC_MAX_FRAMESIZE_SIZE: max-MaxOver .. max+MaxOver
MaxOver == 1

----------------------------------------------------------------------------
(* Values *)

NULL == 0

\* uvc_format_t values a host request can carry
Formats == {"MJPEG", "YUY2"}

\* the arguments of camera_start_cb
Request(format, width, height, rate) ==
    [format |-> format, width |-> width, height |-> height, rate |-> rate]

\* requests tried: the four rows of UVC_FRAMES_INFO, the two mapped sizes
\* that are in no row, a size that is not mapped, and another format
Requests ==
    { Request("MJPEG", 640, 480, 30), Request("MJPEG", 320, 240, 30),
      Request("MJPEG", 480, 320, 30), Request("MJPEG", 1280, 720, 15),
      Request("MJPEG", 800, 600, 30), Request("MJPEG", 1920, 1080, 60),
      Request("MJPEG", 1024, 768, 30), Request("YUY2", 640, 480, 30) }

\* sensor product IDs: the four of the correction chain and one other
PIDs == {"OV3660", "OV2640", "GC0308", "GC032A", "OV5640"}

\* esp_camera_sensor_get_info(&s->id)->support_jpeg: the driver's table entry
\* of the sensor
SupportJpeg(pid) == pid \in {"OV3660", "OV2640", "OV5640"}

\* outcomes of esp_camera_init
InitRets == {"ESP_OK", "ESP_FAIL"}

Buffers == 1 .. CAMERA_FB_COUNT

FrameLens == (UVC_MAX_FRAMESIZE_SIZE - MaxOver) .. (UVC_MAX_FRAMESIZE_SIZE + MaxOver)

\* the capability table advertised to the host
UVC_FRAMES_INFO ==
    << [width |-> 640,  height |-> 480, rate |-> 30, interval |-> 333333],
       [width |-> 320,  height |-> 240, rate |-> 30, interval |-> 333333],
       [width |-> 480,  height |-> 320, rate |-> 30, interval |-> 333333],
       [width |-> 1280, height |-> 720, rate |-> 15, interval |-> 666666] >>

InFramesInfo(width, height, rate) ==
    \E i \in 1 .. Len(UVC_FRAMES_INFO) :
        /\ UVC_FRAMES_INFO[i].width = width
        /\ UVC_FRAMES_INFO[i].height = height
        /\ UVC_FRAMES_INFO[i].rate = rate

\* a sensor config as camera_init receives it
Config(xclk, pixformat, framesize, quality, fbcount) ==
    [xclk_freq_hz |-> xclk, pixel_format |-> pixformat, frame_size |-> framesize,
     jpeg_quality |-> quality, fb_count |-> fbcount]

\* one entry of calls
Call(fn, fb, cfg) == [fn |-> fn, fb |-> fb, cfg |-> cfg]

\* the statics of camera_init before the first call (all zero)
CurInit == Config(0, "RGB565", "96X96", 0, 0)

NoCfg == CurInit

----------------------------------------------------------------------------
(* The esp32-camera driver, as far as the coordinator's calls act on it.   *)
(* A driver state is a record [drv, drv_cfg, pool, rets].                  *)

Driver == [drv |-> drv, drv_cfg |-> drv_cfg, pool |-> pool, rets |-> rets]

AllFree == [b \in Buffers |-> "free"]

Bump(n) == IF n < 2 THEN n + 1 ELSE 2

\* esp_camera_return_all: every checked-out buffer goes back to the pool
DrvReturnAll(D) ==
    [D EXCEPT !.pool = AllFree,
              !.rets = [b \in Buffers |->
                           IF D.pool[b] = "out" THEN Bump(D.rets[b]) ELSE D.rets[b]]]

\* esp_camera_deinit: the driver and its buffers are gone
DrvDeinit(D) == [D EXCEPT !.drv = FALSE, !.drv_cfg = NoCfg, !.pool = AllFree]

\* esp_camera_init returning r: on ESP_OK a fresh pool under cfg, otherwise
\* the driver cleans up after itself and stays uninitialized
DrvInit(D, cfg, r) ==
    IF r = "ESP_OK"
    THEN [D EXCEPT !.drv = TRUE, !.drv_cfg = cfg, !.pool = AllFree]
    ELSE [D EXCEPT !.drv = FALSE, !.drv_cfg = NoCfg, !.pool = AllFree]

\* esp_camera_fb_get handing out buffer fb
DrvFbGet(D, fb) ==
    IF fb = NULL THEN D
    ELSE [D EXCEPT !.pool[fb] = "out", !.rets[fb] = 0]

\* esp_camera_fb_return(fb)
DrvFbReturn(D, fb) ==
    IF fb = NULL THEN D
    ELSE [D EXCEPT !.pool[fb] = "free", !.rets[fb] = Bump(D.rets[fb])]

\* the effect of one logged call on the driver
DrvStep(D, c, r) ==
    CASE c.fn = "esp_camera_return_all" -> DrvReturnAll(D)
      [] c.fn = "esp_camera_deinit"     -> DrvDeinit(D)
      [] c.fn = "esp_camera_init"       -> DrvInit(D, c.cfg, r)
      [] c.fn = "esp_camera_fb_get"     -> DrvFbGet(D, c.fb)
      [] c.fn = "esp_camera_fb_return"  -> DrvFbReturn(D, c.fb)

\* the driver after the calls of cs, made in order (r: what an init returns)
RECURSIVE DrvRun(_, _, _)
DrvRun(D, cs, r) ==
    IF cs = <<>> THEN D ELSE DrvRun(DrvStep(D, Head(cs), r), Tail(cs), r)

\* what esp_camera_fb_get can return: NULL (nothing ready, or no driver), or
\* a free buffer holding a frame of some length
FbGetResults ==
    {[fb |-> NULL, len |-> 0]} \cup
    (IF drv
     THEN {[fb |-> b, len |-> n] : b \in {x \in Buffers : pool[x] = "free"},
                                     n \in FrameLens}
     ELSE {})

----------------------------------------------------------------------------
(* camera_start_cb: the resolution mapping *)

\* MapResolution without the rejecting else branch: an unmatched size keeps
\* the defaults of lines 182-183
MapResolution_NoReject(width, height) ==
    IF width = 320 /\ height = 240
      THEN [ok |-> TRUE, frame_size |-> "QVGA", jpeg_quality |-> 10]
    ELSE IF width = 480 /\ height = 320
      THEN [ok |-> TRUE, frame_size |-> "HVGA", jpeg_quality |-> 10]
    ELSE IF width = 640 /\ height = 480
      THEN [ok |-> TRUE, frame_size |-> "VGA", jpeg_quality |-> 12]
    ELSE IF width = 800 /\ height = 600
      THEN [ok |-> TRUE, frame_size |-> "SVGA", jpeg_quality |-> 14]
    ELSE IF width = 1280 /\ height = 720
      THEN [ok |-> TRUE, frame_size |-> "HD", jpeg_quality |-> 16]
    ELSE IF width = 1920 /\ height = 1080
      THEN [ok |-> TRUE, frame_size |-> "FHD", jpeg_quality |-> 16]
    ELSE [ok |-> TRUE, frame_size |-> "QVGA", jpeg_quality |-> 14]

\* MapResolution with the quality of 1280x720 copied from the row above it
MapResolution_WrongQuality(width, height) ==
    IF width = 320 /\ height = 240
      THEN [ok |-> TRUE, frame_size |-> "QVGA", jpeg_quality |-> 10]
    ELSE IF width = 480 /\ height = 320
      THEN [ok |-> TRUE, frame_size |-> "HVGA", jpeg_quality |-> 10]
    ELSE IF width = 640 /\ height = 480
      THEN [ok |-> TRUE, frame_size |-> "VGA", jpeg_quality |-> 12]
    ELSE IF width = 800 /\ height = 600
      THEN [ok |-> TRUE, frame_size |-> "SVGA", jpeg_quality |-> 14]
    ELSE IF width = 1280 /\ height = 720
      THEN [ok |-> TRUE, frame_size |-> "HD", jpeg_quality |-> 14]
    ELSE IF width = 1920 /\ height = 1080
      THEN [ok |-> TRUE, frame_size |-> "FHD", jpeg_quality |-> 16]
    ELSE [ok |-> FALSE, frame_size |-> "QVGA", jpeg_quality |-> 14]

\* lines 191-212: (width, height) -> frame size and JPEG quality
MapResolution(width, height) ==
    IF width = 320 /\ height = 240
      THEN [ok |-> TRUE, frame_size |-> "QVGA", jpeg_quality |-> 10]
    ELSE IF width = 480 /\ height = 320
      THEN [ok |-> TRUE, frame_size |-> "HVGA", jpeg_quality |-> 10]
    ELSE IF width = 640 /\ height = 480
      THEN [ok |-> TRUE, frame_size |-> "VGA", jpeg_quality |-> 12]
    ELSE IF width = 800 /\ height = 600
      THEN [ok |-> TRUE, frame_size |-> "SVGA", jpeg_quality |-> 14]
    ELSE IF width = 1280 /\ height = 720
      THEN [ok |-> TRUE, frame_size |-> "HD", jpeg_quality |-> 16]
    ELSE IF width = 1920 /\ height = 1080
      THEN [ok |-> TRUE, frame_size |-> "FHD", jpeg_quality |-> 16]
    ELSE [ok |-> FALSE, frame_size |-> "QVGA", jpeg_quality |-> 14]

\* the sensor config camera_start_cb passes to camera_init
ConfigOf(r) ==
    LET m == MapResolution(r.width, r.height)
    IN  Config(CAMERA_XCLK_FREQ, "JPEG", m.frame_size, m.jpeg_quality, CAMERA_FB_COUNT)

\* ParamsOf with the interval in microseconds instead of 100 ns units
ParamsOf_Micros(r) ==
    [format |-> r.format, width |-> r.width, height |-> r.height,
     frame_rate |-> r.rate, frame_interval |-> 1000000 \div r.rate]

\* lines 176-180: the record stored for request r (for rate > 0 the int
\* quotient is in 0 .. 10000000 and fits the uint32_t field unchanged)
ParamsOf(r) ==
    [format |-> r.format, width |-> r.width, height |-> r.height,
     frame_rate |-> r.rate, frame_interval |-> 10000000 \div r.rate]

----------------------------------------------------------------------------
(* camera_init *)

\* AlreadyInited with the quality compared against the wrong argument
AlreadyInited_WrongField(cfg) ==
    /\ inited
    /\ cur.xclk_freq_hz = cfg.xclk_freq_hz
    /\ cur.pixel_format = cfg.pixel_format
    /\ cur.frame_size = cfg.frame_size
    /\ cur.fb_count = cfg.fb_count
    /\ cur.jpeg_quality = cfg.fb_count

\* lines 70-71: the sensor is up under exactly this config
AlreadyInited(cfg) ==
    /\ inited
    /\ cur.xclk_freq_hz = cfg.xclk_freq_hz
    /\ cur.pixel_format = cfg.pixel_format
    /\ cur.frame_size = cfg.frame_size
    /\ cur.fb_count = cfg.fb_count
    /\ cur.jpeg_quality = cfg.jpeg_quality

\* Teardown with the driver shut down before its buffers are returned
Teardown_DeinitFirst ==
    << Call("esp_camera_deinit", NULL, NoCfg),
       Call("esp_camera_return_all", NULL, NoCfg) >>

\* lines 75-76: the driver calls of a restart, in order
Teardown ==
    << Call("esp_camera_return_all", NULL, NoCfg),
       Call("esp_camera_deinit", NULL, NoCfg) >>

\* lines 74-114: the driver calls of a camera_init that does not return early
InitCalls(cfg) ==
    (IF inited THEN Teardown ELSE <<>>) \o << Call("esp_camera_init", NULL, cfg) >>

Setter(fn, val) == [fn |-> fn, val |-> val]

\* Corrections with the GC0308 branch of the chain turning the mirror on
Corrections_MirrorOn(pid) ==
    << Setter("set_vflip", 1) >>
    \o (IF pid = "OV3660"
        THEN << Setter("set_brightness", 1), Setter("set_saturation", -2) >>
        ELSE << >>)
    \o (IF pid = "OV3660" \/ pid = "OV2640" THEN << Setter("set_vflip", 1) >>
        ELSE IF pid = "GC0308" THEN << Setter("set_hmirror", 1) >>
        ELSE IF pid = "GC032A" THEN << Setter("set_vflip", 1) >>
        ELSE << >>)

\* lines 122-137: the setter calls made on the sensor after esp_camera_init
Corrections(pid) ==
    << Setter("set_vflip", 1) >>
    \o (IF pid = "OV3660"
        THEN << Setter("set_brightness", 1), Setter("set_saturation", -2) >>
        ELSE << >>)
    \o (IF pid = "OV3660" \/ pid = "OV2640" THEN << Setter("set_vflip", 1) >>
        ELSE IF pid = "GC0308" THEN << Setter("set_hmirror", 0) >>
        ELSE IF pid = "GC032A" THEN << Setter("set_vflip", 1) >>
        ELSE << >>)

\* JpegOk without the test of the sensor's JPEG support
JpegOk_IgnoresSupport(init_ret, pixel_format, support_jpeg) ==
    init_ret = "ESP_OK" /\ pixel_format = "JPEG"

\* line 143: the condition under which the config is cached
JpegOk(init_ret, pixel_format, support_jpeg) ==
    init_ret = "ESP_OK" /\ pixel_format = "JPEG" /\ support_jpeg

\* what the sensor library can answer during one camera_init
NoHw == [init_ret |-> "none", pid |-> "none", support_jpeg |-> FALSE]

HwOutcomes ==
    {[init_ret |-> "ESP_OK", pid |-> p, support_jpeg |-> SupportJpeg(p)] : p \in PIDs}
    \cup [init_ret : InitRets \ {"ESP_OK"}, pid : {"OV2640"}, support_jpeg : {TRUE}]

\* camera_init(cfg) when esp_camera_init returns hw.init_ret and the sensor
\* reports hw.pid and hw.support_jpeg: its return value, its statics and the
\* driver afterwards, and the calls it made
CameraInit(cfg, hw) ==
    IF AlreadyInited(cfg)
    THEN [ret |-> "ESP_OK", inited |-> inited, cur |-> cur, D |-> Driver,
          calls |-> << >>, corr |-> << >>, hw |-> NoHw]
    ELSE LET cs == InitCalls(cfg)
             D  == DrvRun(Driver, cs, hw.init_ret)
         IN  IF hw.init_ret # "ESP_OK"
             THEN [ret |-> hw.init_ret, inited |-> FALSE, cur |-> cur, D |-> D,
                   calls |-> cs, corr |-> << >>, hw |-> hw]
             ELSE IF JpegOk(hw.init_ret, cfg.pixel_format, hw.support_jpeg)
             THEN [ret |-> hw.init_ret, inited |-> TRUE, cur |-> cfg, D |-> D,
                   calls |-> cs, corr |-> Corrections(hw.pid), hw |-> hw]
             ELSE [ret |-> "ESP_ERR_NOT_SUPPORTED", inited |-> FALSE, cur |-> cur,
                   D |-> D, calls |-> cs, corr |-> Corrections(hw.pid), hw |-> hw]

----------------------------------------------------------------------------
(* The callbacks *)

\* FormatOk without the check: every format goes on to the size mapping
FormatOk_Any(format) == TRUE

\* FormatOk with the comparison inverted
FormatOk_Inverted(format) == format # "MJPEG"

\* lines 185-188
FormatOk(format) == format = "MJPEG"

\* StoredParams with the record written only once the start has succeeded
StoredParams_OnSuccess(r, rv) == IF rv = "ESP_OK" THEN ParamsOf(r) ELSE s_uvc_params

\* lines 176-180: s_uvc_params after camera_start_cb(r) returning rv
StoredParams(r, rv) == ParamsOf(r)

\* lines 182-223: the return value of camera_start_cb(r), the statics of
\* camera_init and the driver afterwards, and the calls it made
StartResult(r, hw) ==
    IF ~FormatOk(r.format) \/ ~MapResolution(r.width, r.height).ok
    THEN [ret |-> "ESP_ERR_NOT_SUPPORTED", inited |-> inited, cur |-> cur,
          D |-> Driver, calls |-> << >>, corr |-> << >>, hw |-> NoHw]
    ELSE CameraInit(ConfigOf(r), hw)

\* camera_start_cb(r.format, r.width, r.height, r.rate)
camera_start_cb(r, hw) ==
    \E res \in {StartResult(r, hw)} :
        /\ ~asserted
        /\ op' = "camera_start_cb"
        /\ req' = r
        /\ hw_ans' = res.hw
        /\ ret' = res.ret
        /\ s_uvc_params' = StoredParams(r, res.ret)
        /\ calls' = res.calls
        /\ corr' = res.corr
        /\ inited' = res.inited
        /\ cur' = res.cur
        /\ drv' = res.D.drv
        /\ drv_cfg' = res.D.drv_cfg
        /\ pool' = res.D.pool
        /\ rets' = res.D.rets
        /\ fb_arg' = "none"
        /\ UNCHANGED <<s_fb, held, asserted>>

\* camera_stop_cb handing the frame buffer back to the driver
camera_stop_cb_ReturnsFrame ==
    /\ ~asserted
    /\ op' = "camera_stop_cb"
    /\ ret' = "void"
    /\ calls' = << Call("esp_camera_fb_return", s_fb.cam_fb_p, NoCfg) >>
    /\ corr' = << >>
    /\ hw_ans' = NoHw
    /\ fb_arg' = "none"
    /\ pool' = DrvFbReturn(Driver, s_fb.cam_fb_p).pool
    /\ rets' = DrvFbReturn(Driver, s_fb.cam_fb_p).rets
    /\ UNCHANGED <<s_uvc_params, inited, cur, s_fb, drv, drv_cfg,
                   held, asserted, req>>

\* camera_stop_cb
camera_stop_cb ==
    /\ ~asserted
    /\ op' = "camera_stop_cb"
    /\ ret' = "void"
    /\ calls' = << >>
    /\ corr' = << >>
    /\ hw_ans' = NoHw
    /\ fb_arg' = "none"
    /\ UNCHANGED <<s_uvc_params, inited, cur, s_fb, drv, drv_cfg, pool, rets,
                   held, asserted, req>>

\* TooLarge rejecting a frame that fills the transport buffer exactly
TooLarge_OffByOne(len) == len >= UVC_MAX_FRAMESIZE_SIZE

\* line 240: the frame does not fit the transport buffer
TooLarge(len) == len > UVC_MAX_FRAMESIZE_SIZE

\* DropCalls without the esp_camera_fb_return of line 242
DropCalls_Leak(fb) == << >>

\* lines 240-244: the driver calls made for a frame that does not fit
DropCalls(fb) == << Call("esp_camera_fb_return", fb, NoCfg) >>

\* lines 233-238: the descriptor filled from the frame in buffer fb.  buf
\* aliases the sensor buffer; width, height and timestamp are copied from the
\* frame in the same way and read by no code of the coordinator, so they are
\* left out of the record
Descriptor(fb, len) ==
    [buf |-> fb, len |-> len, format |-> drv_cfg.pixel_format]

\* NoFrame without the null test: the callback goes on as if it had a frame
NoFrame_Never(fb) == FALSE

\* lines 230-232: the sensor had no frame ready
NoFrame(fb) == fb = NULL

\* camera_fb_get_cb when esp_camera_fb_get returns g
camera_fb_get_cb(g) ==
    LET get == << Call("esp_camera_fb_get", g.fb, NoCfg) >>
        cs  == IF NoFrame(g.fb) THEN get
               ELSE IF TooLarge(g.len) THEN get \o DropCalls(g.fb)
               ELSE get
        D   == DrvRun(Driver, cs, "ESP_OK")
        rv  == IF NoFrame(g.fb) \/ TooLarge(g.len) THEN "NULL" ELSE "uvc_fb"
    IN  /\ ~asserted
        /\ op' = "camera_fb_get_cb"
        /\ ret' = rv
        /\ calls' = cs
        /\ corr' = << >>
        /\ s_fb' = IF NoFrame(g.fb) THEN [s_fb EXCEPT !.cam_fb_p = NULL]
                   ELSE [cam_fb_p |-> g.fb, uvc_fb |-> Descriptor(g.fb, g.len)]
        /\ pool' = D.pool
        /\ rets' = D.rets
        /\ held' = (rv = "uvc_fb")
        /\ hw_ans' = NoHw
        /\ fb_arg' = "none"
        /\ UNCHANGED <<s_uvc_params, inited, cur, drv, drv_cfg, asserted, req>>

\* line 251: the handle is the address of the static descriptor
HandleOk(fb) == fb = "uvc_fb"

\* ReturnCalls passing a null pointer instead of s_fb.cam_fb_p
ReturnCalls_Null == << Call("esp_camera_fb_return", NULL, NoCfg) >>

\* line 252: the buffer handed back to the driver
ReturnCalls == << Call("esp_camera_fb_return", s_fb.cam_fb_p, NoCfg) >>

\* camera_fb_return_cb(fb)
camera_fb_return_cb(fb) ==
    LET cs == IF HandleOk(fb) THEN ReturnCalls ELSE << >>
        D  == DrvRun(Driver, cs, "ESP_OK")
    IN  /\ ~asserted
        /\ op' = "camera_fb_return_cb"
        /\ fb_arg' = fb
        /\ hw_ans' = NoHw
        /\ ret' = "void"
        /\ asserted' = ~HandleOk(fb)
        /\ calls' = cs
        /\ corr' = << >>
        /\ pool' = D.pool
        /\ rets' = D.rets
        /\ held' = FALSE
        /\ UNCHANGED <<s_uvc_params, inited, cur, s_fb, drv, drv_cfg, req>>

----------------------------------------------------------------------------
(* The transport *)

\* pointers a caller can pass to camera_fb_return_cb: the address of
\* s_fb.uvc_fb, or any other
Handles == {"uvc_fb", "other"}

\* lines 53-59, 63-68, 44: the statics at start-up; no callback has run
Init ==
    /\ s_uvc_params = [format |-> "MJPEG", width |-> 640, height |-> 480,
                       frame_rate |-> 30, frame_interval |-> 333333]
    /\ inited = FALSE
    /\ cur = CurInit
    /\ s_fb = [cam_fb_p |-> NULL,
               uvc_fb |-> [buf |-> NULL, len |-> 0, format |-> "RGB565"]]
    /\ drv = FALSE
    /\ drv_cfg = NoCfg
    /\ pool = AllFree
    /\ rets = [b \in Buffers |-> 0]
    /\ held = FALSE
    /\ asserted = FALSE
    /\ op = "none"
    /\ req = Request("MJPEG", 640, 480, 30)
    /\ hw_ans = NoHw
    /\ fb_arg = "none"
    /\ ret = "void"
    /\ calls = << >>
    /\ corr = << >>

\* the host negotiates a stream
OnStreamStart == \E r \in Requests, hw \in HwOutcomes : camera_start_cb(r, hw)

\* the stream ends
OnStreamStop == camera_stop_cb

\* the transport asks for a frame; it holds none
OnFrameRequest == ~held /\ \E g \in FbGetResults : camera_fb_get_cb(g)

\* the transport gives back the frame it holds
OnFrameRelease == held /\ camera_fb_return_cb("uvc_fb")

\* a caller breaking the contract: a release that does not pair with the
\* immediately preceding successful acquire
OnBadRelease == \E h \in Handles : ~(held /\ h = "uvc_fb") /\ camera_fb_return_cb(h)

Next == OnStreamStart \/ OnStreamStop \/ OnFrameRequest \/ OnFrameRelease

\* the callbacks under the transport's calling discipline
Spec == Init /\ [][Next]_vars

NextMisuse == Next \/ OnBadRelease

\* the callbacks with a caller that may release out of turn
SpecMisuse == Init /\ [][NextMisuse]_vars

TypeOK ==
    /\ inited \in BOOLEAN /\ drv \in BOOLEAN /\ held \in BOOLEAN
    /\ asserted \in BOOLEAN
    /\ s_fb.cam_fb_p \in {NULL} \cup Buffers
    /\ \A b \in Buffers : pool[b] \in {"free", "out"} /\ rets[b] \in 0 .. 2
    /\ req \in Requests

----------------------------------------------------------------------------
(* Properties *)

\* the (width, height) pairs of the frame-size mapping of camera_start_cb
MappedSizes == {<<320, 240>>, <<480, 320>>, <<640, 480>>, <<800, 600>>,
                <<1280, 720>>, <<1920, 1080>>}

\* the last camera_start_cb call got as far as calling camera_init
ReachedCameraInit(r) == r.format = "MJPEG" /\ <<r.width, r.height>> \in MappedSizes

\* the record a request asks for
Requested(r) ==
    [format |-> r.format, width |-> r.width, height |-> r.height,
     frame_rate |-> r.rate, frame_interval |-> 10000000 \div r.rate]

CheckedOut == {b \in Buffers : pool[b] = "out"}

\* C1: a camera_start_cb that directly follows a successful camera_start_cb
\* with the same (format, width, height, frame_rate) returns ESP_OK and makes
\* no esp_camera_* call and no sensor setter call; the lifecycle state and
\* the driver are as before.
C1_SameConfigIsNoOp ==
    [][ (/\ op = "camera_start_cb" /\ ret = "ESP_OK"
         /\ op' = "camera_start_cb" /\ req' = req)
        => (/\ ret' = "ESP_OK"
            /\ calls' = << >>
            /\ corr' = << >>
            /\ UNCHANGED <<inited, cur, drv, drv_cfg, pool>>) ]_vars

C1_Witness ==
    /\ op = "camera_start_cb" /\ ret = "ESP_OK" /\ calls = << >>
    /\ inited /\ cur = ConfigOf(req)

\* C2: a camera_start_cb whose derived config differs from the cached one
\* while the sensor is initialized makes exactly the calls
\* esp_camera_return_all, esp_camera_deinit, esp_camera_init(new config), in
\* this order, and no buffer is checked out afterwards.
C2_OrderlyRestart ==
    [][ (/\ op' = "camera_start_cb" /\ ReachedCameraInit(req')
         /\ inited /\ cur # ConfigOf(req'))
        => (/\ Len(calls') = 3
            /\ calls'[1].fn = "esp_camera_return_all"
            /\ calls'[2].fn = "esp_camera_deinit"
            /\ calls'[3] = Call("esp_camera_init", NULL, ConfigOf(req'))
            /\ CheckedOut' = {}) ]_vars

C2_Witness ==
    /\ op = "camera_start_cb" /\ Len(calls) = 3
    /\ calls[1].fn = "esp_camera_return_all" /\ calls[3].fn = "esp_camera_init"
    /\ inited /\ cur.frame_size = "HD"

C4_BadReleaseIsFatal ==
    [][ (op' = "camera_fb_return_cb" /\ ~(held /\ fb_arg' = "uvc_fb"))
        => (asserted' /\ calls' = << >>) ]_vars

\* C5: an acquire that got a frame longer than UVC_MAX_FRAMESIZE_SIZE returns
\* NULL after exactly one esp_camera_fb_return of that buffer and leaves no
\* buffer checked out; a frame of at most the maximum is handed out with no
\* esp_camera_fb_return; a descriptor held by the transport has
\* len <= UVC_MAX_FRAMESIZE_SIZE.
C5_OversizeDropped ==
    /\ (op = "camera_fb_get_cb" /\ s_fb.cam_fb_p # NULL) =>
          IF s_fb.uvc_fb.len > 75 * 1024
          THEN /\ ret = "NULL"
               /\ calls = << Call("esp_camera_fb_get", s_fb.cam_fb_p, NoCfg),
                             Call("esp_camera_fb_return", s_fb.cam_fb_p, NoCfg) >>
               /\ CheckedOut = {}
          ELSE /\ ret = "uvc_fb"
               /\ calls = << Call("esp_camera_fb_get", s_fb.cam_fb_p, NoCfg) >>
               /\ CheckedOut = {s_fb.cam_fb_p}
    /\ held => s_fb.uvc_fb.len <= 75 * 1024

C5_Witness ==
    /\ op = "camera_fb_get_cb" /\ s_fb.cam_fb_p # NULL
    /\ s_fb.uvc_fb.len > 75 * 1024 /\ ret = "NULL" /\ Len(calls) = 2

\* C6: under the alternation of acquire and release at most one buffer is
\* checked out, it is checked out only while the transport holds the
\* descriptor, and none is checked out after a release.
C6_AtMostOneCheckedOut ==
    /\ Cardinality(CheckedOut) <= 1
    /\ ~held => CheckedOut = {}
    /\ op = "camera_fb_return_cb" => CheckedOut = {}

C6_Witness ==
    /\ op = "camera_fb_get_cb" /\ held /\ Cardinality(CheckedOut) = 1
    /\ \E b \in Buffers : rets[b] = 1

\* C7: a release of the descriptor of the preceding successful acquire does
\* not fail the assertion and makes exactly one esp_camera_fb_return call,
\* for the buffer the descriptor aliases; directly after the acquire that
\* buffer goes from checked out to free, returned once.
C7_ReleaseReturnsAcquired ==
    [][ (op' = "camera_fb_return_cb" /\ held /\ fb_arg' = "uvc_fb")
        => (/\ ~asserted'
            /\ s_fb.uvc_fb.buf # NULL
            /\ calls' = << Call("esp_camera_fb_return", s_fb.uvc_fb.buf, NoCfg) >>
            /\ op = "camera_fb_get_cb" =>
                  /\ pool[s_fb.uvc_fb.buf] = "out"
                  /\ pool'[s_fb.uvc_fb.buf] = "free"
                  /\ rets'[s_fb.uvc_fb.buf] = 1
                  /\ CheckedOut' = {}) ]_vars

C7_Witness ==
    /\ op = "camera_fb_return_cb" /\ ~asserted /\ fb_arg = "uvc_fb"
    /\ Len(calls) = 1 /\ calls[1].fb = s_fb.uvc_fb.buf
    /\ rets[s_fb.uvc_fb.buf] = 1

\* C8 as claimed: a camera_start_cb that returns failure leaves s_uvc_params
\* as it was before the call.
C8_FailureKeepsParams ==
    [][ (op' = "camera_start_cb" /\ ret' # "ESP_OK")
        => s_uvc_params' = s_uvc_params ]_vars

\* C8 as amended: s_uvc_params is written by every camera_start_cb call and
\* by no other callback: after a call that returns failure it holds the
\* requested values, and the other callbacks leave it unchanged.
C8_ParamsWrittenOnFailure ==
    [][ /\ (op' = "camera_start_cb" /\ ret' # "ESP_OK")
            => s_uvc_params' = Requested(req')
        /\ op' # "camera_start_cb" => s_uvc_params' = s_uvc_params ]_vars

C8_Witness ==
    /\ op = "camera_start_cb" /\ ret = "ESP_ERR_NOT_SUPPORTED"
    /\ req.format = "YUY2" /\ s_uvc_params.format = "YUY2"

\* C9: after a camera_start_cb call that reached camera_init, s_uvc_params
\* equals the requested (format, width, height, frame_rate,
\* 10000000 / frame_rate), whether the initialization succeeded or failed.
C9_ParamsReflectRequest ==
    (op = "camera_start_cb" /\ ReachedCameraInit(req))
    => s_uvc_params = Requested(req)

C9_Witness ==
    /\ op = "camera_start_cb" /\ ReachedCameraInit(req)
    /\ ret = "ESP_FAIL" /\ ~inited
    /\ s_uvc_params.width = 1280 /\ s_uvc_params.frame_interval = 666666

\* C10: camera_start_cb with MJPEG and the (width, height, rate) of a row of
\* UVC_FRAMES_INFO returns ESP_OK unless esp_camera_init failed or the sensor
\* lacks JPEG support, and leaves frame_interval = 10000000 / rate, which is
\* the interval of that row.
C10_TableRowsNegotiate ==
    \A i \in 1 .. Len(UVC_FRAMES_INFO) :
        (/\ op = "camera_start_cb" /\ req.format = "MJPEG"
         /\ req.width = UVC_FRAMES_INFO[i].width
         /\ req.height = UVC_FRAMES_INFO[i].height
         /\ req.rate = UVC_FRAMES_INFO[i].rate)
        => /\ (hw_ans = NoHw \/ (hw_ans.init_ret = "ESP_OK" /\ hw_ans.support_jpeg))
                => (ret = "ESP_OK" /\ inited)
           /\ s_uvc_params.frame_interval = 10000000 \div req.rate
           /\ s_uvc_params.frame_interval = UVC_FRAMES_INFO[i].interval

C10_Witness ==
    /\ op = "camera_start_cb" /\ req = Request("MJPEG", 480, 320, 30)
    /\ hw_ans.init_ret = "ESP_OK" /\ ret = "ESP_OK" /\ inited
    /\ s_uvc_params.frame_interval = 333333

\* the last camera_start_cb call asked the sensor library and it failed:
\* esp_camera_init returned an error, or the sensor lacks JPEG support
HardwareFailed(h) == h # NoHw /\ (h.init_ret # "ESP_OK" \/ ~h.support_jpeg)

HardwareSucceeded(h) == h # NoHw /\ h.init_ret = "ESP_OK" /\ h.support_jpeg

\* C11: a camera_start_cb whose initialization attempt fails returns failure
\* and leaves inited false; a camera_start_cb with a mappable MJPEG request
\* made while inited is false always calls esp_camera_init with the derived
\* config, with no teardown, and returns ESP_OK with inited true when
\* esp_camera_init succeeds and the sensor supports JPEG.
C11_FailureNotSticky ==
    [][ /\ (op' = "camera_start_cb" /\ HardwareFailed(hw_ans'))
            => (ret' # "ESP_OK" /\ ~inited')
        /\ (~inited /\ op' = "camera_start_cb" /\ ReachedCameraInit(req'))
            => (/\ calls' = << Call("esp_camera_init", NULL, ConfigOf(req')) >>
                /\ hw_ans' # NoHw
                /\ HardwareSucceeded(hw_ans') => (ret' = "ESP_OK" /\ inited')) ]_vars

C11_Witness ==
    /\ op = "camera_start_cb" /\ ReachedCameraInit(req)
    /\ hw_ans.init_ret = "ESP_OK" /\ ~hw_ans.support_jpeg
    /\ ret = "ESP_ERR_NOT_SUPPORTED" /\ ~inited
    /\ cur = ConfigOf(req)

\* C12: a camera_start_cb whose (width, height) is none of the pairs of the
\* mapping returns ESP_ERR_NOT_SUPPORTED without calling camera_init: inited
\* and every cached cur_* field are as before the call.
C12_UnmappedKeepsLifecycle ==
    [][ (op' = "camera_start_cb" /\ <<req'.width, req'.height>> \notin MappedSizes)
        => (/\ ret' = "ESP_ERR_NOT_SUPPORTED"
            /\ hw_ans' = NoHw
            /\ inited' = inited
            /\ cur' = cur) ]_vars

C12_Witness ==
    /\ op = "camera_start_cb" /\ req.width = 1024 /\ req.height = 768
    /\ ret = "ESP_ERR_NOT_SUPPORTED" /\ inited /\ cur.frame_size = "VGA"

\* C13: a camera_start_cb with a format other than MJPEG returns
\* ESP_ERR_NOT_SUPPORTED, makes no esp_camera_* call and no setter call, and
\* leaves inited, the cached config and the driver as they were.
C13_OtherFormatRejected ==
    [][ (op' = "camera_start_cb" /\ req'.format # "MJPEG")
        => (/\ ret' = "ESP_ERR_NOT_SUPPORTED"
            /\ calls' = << >>
            /\ corr' = << >>
            /\ UNCHANGED <<inited, cur, drv, drv_cfg, pool, rets>>) ]_vars

C13_Witness ==
    /\ op = "camera_start_cb" /\ req.format = "YUY2"
    /\ <<req.width, req.height>> \in MappedSizes
    /\ ret = "ESP_ERR_NOT_SUPPORTED" /\ inited /\ calls = << >>

\* C14: an acquire for which esp_camera_fb_get has no frame returns NULL,
\* does not fail the assertion and makes no esp_camera_fb_return call; the
\* transport holds nothing, so a further acquire is enabled, and with the
\* driver up it can hand out a frame.
C14_NoFrameIsRecoverable ==
    (op = "camera_fb_get_cb" /\ s_fb.cam_fb_p = NULL)
    => (/\ ret = "NULL"
        /\ ~asserted
        /\ calls = << Call("esp_camera_fb_get", NULL, NoCfg) >>
        /\ ~held
        /\ ENABLED OnFrameRequest
        /\ drv => \E g \in FbGetResults :
                      g.fb # NULL /\ ~TooLarge(g.len) /\ ENABLED camera_fb_get_cb(g))

C14_Witness ==
    /\ op = "camera_fb_get_cb" /\ s_fb.cam_fb_p = NULL /\ ret = "NULL"
    /\ drv /\ inited /\ Len(calls) = 1

\* C15: camera_stop_cb changes neither s_uvc_params, nor inited, nor the
\* cached config, nor s_fb, makes no esp_camera_* call and no setter call,
\* and leaves the driver and its buffers as they were.
C15_StopIsObservational ==
    [][ op' = "camera_stop_cb"
        => (/\ calls' = << >>
            /\ corr' = << >>
            /\ UNCHANGED <<s_uvc_params, inited, cur, s_fb, drv, drv_cfg,
                           pool, rets>>) ]_vars

C15_Witness ==
    /\ op = "camera_stop_cb" /\ calls = << >>
    /\ held /\ CheckedOut = {s_fb.cam_fb_p} /\ inited

HasCall(cs, fn) == \E i \in 1 .. Len(cs) : cs[i].fn = fn

\* C16 as claimed: esp_camera_init is never called while the driver is still
\* initialized from an earlier successful esp_camera_init, that is, unless
\* the driver was down before the callback or the callback called
\* esp_camera_deinit first.
C16_NoInitWhileDriverUp ==
    [][ HasCall(calls', "esp_camera_init")
        => (~drv \/ HasCall(calls', "esp_camera_deinit")) ]_vars

\* C17 as claimed: under the alternation of acquire and release, no frame
\* taken from a buffer by esp_camera_fb_get is returned more than once.
C17_ReturnedAtMostOnce == \A b \in Buffers : rets[b] <= 1

\* the sensor config the fixed mapping gives for a mapped size
MappedConfig(width, height) ==
    CASE <<width, height>> = <<320, 240>>   -> Config(20000000, "JPEG", "QVGA", 10, 2)
      [] <<width, height>> = <<480, 320>>   -> Config(20000000, "JPEG", "HVGA", 10, 2)
      [] <<width, height>> = <<640, 480>>   -> Config(20000000, "JPEG", "VGA", 12, 2)
      [] <<width, height>> = <<800, 600>>   -> Config(20000000, "JPEG", "SVGA", 14, 2)
      [] <<width, height>> = <<1280, 720>>  -> Config(20000000, "JPEG", "HD", 16, 2)
      [] <<width, height>> = <<1920, 1080>> -> Config(20000000, "JPEG", "FHD", 16, 2)
      [] OTHER                              -> NoCfg

\* C18: after a camera_start_cb that returned ESP_OK, inited is true, the
\* driver is up, and the cached config equals the config the driver was
\* initialized with, which is the one the fixed mapping gives for the
\* requested size.
C18_CachedConfigIsApplied ==
    (op = "camera_start_cb" /\ ret = "ESP_OK")
    => (/\ inited
        /\ drv
        /\ <<req.width, req.height>> \in MappedSizes
        /\ cur = MappedConfig(req.width, req.height)
        /\ drv_cfg = cur)

C18_Witness ==
    /\ op = "camera_start_cb" /\ ret = "ESP_OK"
    /\ req = Request("MJPEG", 1280, 720, 15)
    /\ s_uvc_params.frame_interval = 666666
    /\ Len(calls) = 3
    /\ cur = Config(20000000, "JPEG", "HD", 16, 2) /\ drv_cfg = cur

\* the setter calls listed for a product ID
ListedCorrections(pid) ==
    CASE pid = "OV3660" -> {Setter("set_brightness", 1), Setter("set_saturation", -2),
                            Setter("set_vflip", 1)}
      [] pid = "OV2640" -> {Setter("set_vflip", 1)}
      [] pid = "GC0308" -> {Setter("set_hmirror", 0)}
      [] pid = "GC032A" -> {Setter("set_vflip", 1)}
      [] OTHER          -> {}

SettersIn(cs) == {cs[i] : i \in 1 .. Len(cs)}

\* C19 as claimed: after a successful esp_camera_init the sensor receives
\* only the setter calls listed for its product ID, and none when its ID is
\* not one of the four known ones.
C19_OnlyListedCorrections ==
    (op = "camera_start_cb" /\ hw_ans.init_ret = "ESP_OK")
    => SettersIn(corr) \subseteq ListedCorrections(hw_ans.pid)

\* C19 as amended: after a successful esp_camera_init every sensor first
\* receives set_vflip(1), whatever its product ID, and then exactly the setter
\* calls listed for its ID; a sensor with an unknown ID receives set_vflip(1)
\* alone.
C19_VflipThenListed ==
    (op = "camera_start_cb" /\ hw_ans.init_ret = "ESP_OK")
    => (/\ Len(corr) >= 1
        /\ corr[1] = Setter("set_vflip", 1)
        /\ SettersIn(Tail(corr)) = ListedCorrections(hw_ans.pid)
        /\ hw_ans.pid \notin {"OV3660", "OV2640", "GC0308", "GC032A"}
              => corr = << Setter("set_vflip", 1) >>)

C19_Witness ==
    /\ op = "camera_start_cb" /\ hw_ans.init_ret = "ESP_OK"
    /\ hw_ans.pid = "OV5640" /\ corr = << Setter("set_vflip", 1) >>

====
